---- MODULE Spec2Model ----
(***************************************************************************)
(* The node cache of libkbfs (nodeCacheStandard): an index from block      *)
(* references to reference-counted node cores, the operations that create, *)
(* look up, release, rekey, move and unlink nodes, and the reconstruction  *)
(* of a path from a node.  Every operation runs under the cache's lock, so *)
(* each is one atomic action.                                              *)
(***************************************************************************)
EXTENDS Integers, Sequences, FiniteSets, TLC

\* ------------------------------------------------------------------ bounds
\* Block IDs 1..MaxId are well-formed; 0 is the zero BlockID.
MaxId == 3
\* Data versions 0..MaxVer: the part of a BlockPointer that is not in its ref.
MaxVer == 1
\* Node cores the cache may allocate in one run.
MaxCores == 3
\* Handles (nodeStandard objects) outstanding for one core at a time.
MaxHandles == 2
\* Calls made on the cache in one run: every sequence of calls up to this length.
MaxCalls == 4

\* Threads calling the cache at the same time.
MaxThreads == 2

\* ------------------------------------------------------- pointers and refs
BlockIDs == 0..MaxId

\* blockRef{ID, RefNonce}.  A non-zero nonce is only used with the zero ID,
\* which gives a reference that is invalid without being the zero value.
blockRef == {r \in [ID : BlockIDs, RefNonce : 0..1] : r.RefNonce = 0 \/ r.ID = 0}

\* BlockPointer{ID, DataVer, RefNonce}.  The invalid pointers are the zero value
\* and the zero ID with a non-zero nonce.
BlockPointer ==
    {p \in [ID : BlockIDs, RefNonce : 0..1, DataVer : 0..MaxVer] :
        (p.ID # 0 /\ p.RefNonce = 0) \/ (p.ID = 0 /\ p.DataVer = 0)}

\* blockRef{} and BlockPointer{}
ZeroRef == [ID |-> 0, RefNonce |-> 0]
ZeroPtr == [ID |-> 0, RefNonce |-> 0, DataVer |-> 0]

\* BlockPointer.ref(): the identity a pointer derives (drops DataVer).
ref(p) == [ID |-> p.ID, RefNonce |-> p.RefNonce]

\* blockRef.IsValid / BlockPointer.IsValid: the block ID is well-formed.
RefIsValid(r) == r.ID # 0
PtrIsValid(p) == p.ID # 0

\* The keys the index can hold: panics keep every invalid ref out of it.
Keys == {r \in blockRef : RefIsValid(r)}

\* ------------------------------------------------------------ nodes, paths
Names == {"a", "b"}
NameInputs == Names \cup {""}

\* A Node argument: nil, a Node of another implementation, or a nodeStandard,
\* which is identified by the core it points to.
Nil == 0
Foreign == -1
CoreIds == 1..MaxCores

\* The folder-branch of this cache, and the one of another cache.
folderBranch == "fb"
otherBranch == "fbOther"
zeroBranch == ""

\* pathNode{BlockPointer, Name}
pathNode(p, n) == [BlockPointer |-> p, Name |-> n]

\* path{FolderBranch, path}
ZeroPath == [FolderBranch |-> zeroBranch, path |-> <<>>]

Ptr(i, v) == [ID |-> i, RefNonce |-> 0, DataVer |-> v]

\* The snapshots callers pass to Unlink: an empty one, and one of two path
\* nodes that carries the folder-branch of another cache.
SnapshotInputs ==
    { ZeroPath,
      [FolderBranch |-> otherBranch,
       path |-> <<pathNode(Ptr(1, 1), "r"), pathNode(Ptr(2, 0), "s")>>] }

\* nodeCore{pathNode, parent, cachedPath}; parent is a nodeStandard or nil.
NoCore == [pathNode |-> pathNode(ZeroPtr, ""), parent |-> Nil, cachedPath |-> ZeroPath]

\* newNodeCore(ptr, name, parent, cache)
newNodeCore(ptr, name, parent) ==
    [pathNode |-> pathNode(ptr, name), parent |-> parent, cachedPath |-> ZeroPath]

\* A missing key of the index, and nodeCacheEntry{core, refCount}.
NoEntry == [core |-> 0, refCount |-> 0]

\* ------------------------------------------------------------------- state
VARIABLES
    nodes,      \* ncs.nodes: Keys -> nodeCacheEntry, NoEntry for a missing key
    cores,      \* the heap of nodeCore objects, by core id
    allocated,  \* how many cores have been allocated: ids 1..allocated
    held,       \* per core, the nodeStandard handles issued and not yet finalized
    unlinked,   \* history: the cores Unlink has acted on
    calls,      \* history: the number of calls made so far
    lock,       \* ncs.lock: the thread holding it for writing (0: none), and
                \* the threads holding it for reading
    running     \* per thread, the call it is in and how far the call has got

vars == <<nodes, cores, allocated, held, unlinked, calls, lock, running>>

Threads == 1..MaxThreads

\* The arguments of a call in progress (those the operation does not take are
\* at their zero value), and a thread that is in no call.
Call(op, ptr, name, node, r, oldPath) ==
    [op |-> op, ptr |-> ptr, name |-> name, node |-> node, ref |-> r, path |-> oldPath]

NoCall == Call("none", ZeroPtr, "", Nil, ZeroRef, ZeroPath)

\* A thread: pc is "idle", "waitW" / "waitR" (at Lock / RLock), "writing" or
\* "reading" (inside the critical section).  A writer has the assignments it
\* still has to make (todo: the cache after each) and the cache its call has
\* to leave (goal); a reader has the position of its walk (ns, p) and, once
\* the walk is over, the path it returns (ret).
Thread(pc, call, todo, goal, ns, p, ret) ==
    [pc |-> pc, call |-> call, todo |-> todo, goal |-> goal,
     ns |-> ns, p |-> p, ret |-> ret]

Idle == Thread("idle", NoCall, <<>>, <<>>, Nil, <<>>, <<>>)

\* sync.RWMutex with no holder.
Unlocked == [writer |-> 0, readers |-> {}]

Init ==
    /\ nodes = [r \in Keys |-> NoEntry]
    /\ cores = [c \in CoreIds |-> NoCore]
    /\ allocated = 0
    /\ held = [c \in CoreIds |-> 0]
    /\ unlinked = {}
    /\ calls = 0
    /\ lock = Unlocked
    /\ running = [t \in Threads |-> Idle]

\* The cache, its cores and the handles on them as one value; S is the current one.
Cache(ns, cs, al, hd, ul) ==
    [nodes |-> ns, cores |-> cs, allocated |-> al, held |-> hd, unlinked |-> ul]

S == Cache(nodes, cores, allocated, held, unlinked)

\* What a call gives: what it returns, and the cache st it leaves.
\*   kind: "node" (a handle to core), "nil", "done", "EmptyNameError" and
\*   "ParentNodeNotFoundError" (tagged with ref), "panic";
\*   inBounds: the call stays within MaxCores and MaxHandles.
Outcome(kind, r, c, st, ib) ==
    [kind |-> kind, ref |-> r, core |-> c, st |-> st, inBounds |-> ib]

\* A call on s that returns without touching the cache.
Returns(s, kind, r) == Outcome(kind, r, 0, s, TRUE)

\* core.pathNode.ref(), for core c of the cores cs
coreRef(cs, c) == ref(cs[c].pathNode.BlockPointer)

\* The Node arguments a caller can pass on s: nil, a Node of another
\* implementation, or a nodeStandard it holds.
NodeInputs(s) == {Nil, Foreign} \cup {c \in CoreIds : s.held[c] > 0}

\* ------------------------------------------------------------------ helpers
\* forgetLocked with the entry deleted only below zero (`<' for `<=').
forgetLocked_KeepsZero(s, core) ==
    LET r == coreRef(s.cores, core)
        entry == s.nodes[r]
    IN  IF entry = NoEntry THEN s.nodes
        ELSE IF entry.core # core THEN s.nodes
        ELSE IF entry.refCount - 1 < 0
             THEN [s.nodes EXCEPT ![r] = NoEntry]
             ELSE [s.nodes EXCEPT ![r].refCount = @ - 1]

\* forgetLocked without the comparison of the entry's core with the core released.
forgetLocked_NoCoreCheck(s, core) ==
    LET r == coreRef(s.cores, core)
        entry == s.nodes[r]
    IN  IF entry = NoEntry THEN s.nodes
        ELSE IF entry.refCount - 1 <= 0
             THEN [s.nodes EXCEPT ![r] = NoEntry]
             ELSE [s.nodes EXCEPT ![r].refCount = @ - 1]

\* forgetLocked(core): the index after the call.
forgetLocked(s, core) ==
    LET r == coreRef(s.cores, core)
        entry == s.nodes[r]
    IN  IF entry = NoEntry THEN s.nodes
        ELSE IF entry.core # core THEN s.nodes
        ELSE IF entry.refCount - 1 <= 0
             THEN [s.nodes EXCEPT ![r] = NoEntry]
             ELSE [s.nodes EXCEPT ![r].refCount = @ - 1]

\* newChildForParentLocked(parent) against index ns and cores cs: ok with the
\* nodeStandard, or ParentNodeNotFoundError tagged with ref.
newChildForParentLocked(ns, cs, parent) ==
    IF parent = Nil \/ parent = Foreign
    THEN [ok |-> FALSE, node |-> Nil, ref |-> ZeroRef]
    ELSE LET r == coreRef(cs, parent)
             entry == ns[r]
         IN  IF entry = NoEntry THEN [ok |-> FALSE, node |-> Nil, ref |-> r]
             ELSE IF parent # entry.core THEN [ok |-> FALSE, node |-> Nil, ref |-> r]
             ELSE [ok |-> TRUE, node |-> parent, ref |-> r]

\* makeNodeStandardForEntry(entry), for the entry under key r of index ns:
\* the index with the entry's count raised; the handle returned is to its core.
makeNodeStandardForEntry(ns, r) == [ns EXCEPT ![r].refCount = @ + 1]

\* ------------------------------------------------------------ PathFromNode
\* Reverse of a sequence.
Reverse(q) == [i \in 1..Len(q) |-> q[Len(q) + 1 - i]]

\* What a walk that never leaves a cycle of parent links gives: no path.
Diverged == [FolderBranch |-> zeroBranch, path |-> <<>>, diverged |-> TRUE]

\* The loop of PathFromNode with the path node of the unlinked core appended
\* before its cached path is spliced in.
RECURSIVE walk_AddsUnlinked(_, _, _, _)
walk_AddsUnlinked(cs, ns, p, fuel) ==
    IF ns = Nil THEN [direct |-> FALSE, diverged |-> FALSE, path |-> p]
    ELSE IF fuel = 0 THEN [direct |-> FALSE, diverged |-> TRUE, path |-> p]
    ELSE LET core == cs[ns] IN
         IF core.parent = Nil /\ Len(core.cachedPath.path) > 0
         THEN IF Len(p) = 0
              THEN [direct |-> TRUE, diverged |-> FALSE, path |-> core.cachedPath.path]
              ELSE [direct |-> FALSE, diverged |-> FALSE,
                    path |-> Append(p, core.pathNode) \o Reverse(core.cachedPath.path)]
         ELSE walk_AddsUnlinked(cs, core.parent, Append(p, core.pathNode), fuel - 1)

\* The loop of PathFromNode over the cores cs, from nodeStandard ns, with p the
\* path nodes appended so far (leaf first).  fuel is the number of cores not
\* yet visited: a walk that visits more cores than exist is in a cycle.
\* direct: the cached path of the first node is returned as it is.
RECURSIVE walk(_, _, _, _)
walk(cs, ns, p, fuel) ==
    IF ns = Nil THEN [direct |-> FALSE, diverged |-> FALSE, path |-> p]
    ELSE IF fuel = 0 THEN [direct |-> FALSE, diverged |-> TRUE, path |-> p]
    ELSE LET core == cs[ns] IN
         IF core.parent = Nil /\ Len(core.cachedPath.path) > 0
         THEN IF Len(p) = 0
              THEN [direct |-> TRUE, diverged |-> FALSE, path |-> core.cachedPath.path]
              ELSE [direct |-> FALSE, diverged |-> FALSE,
                    path |-> p \o Reverse(core.cachedPath.path)]
         ELSE walk(cs, core.parent, Append(p, core.pathNode), fuel - 1)

\* Whether the loop of PathFromNode(node) on s comes to an end.
PathTerminates(s, node) ==
    IF node = Nil \/ node = Foreign THEN TRUE
    ELSE ~walk(s.cores, node, <<>>, MaxCores).diverged

\* PathFromNode without the reversal of the path nodes after the loop.
PathFromNode_NoReverse(s, node) ==
    IF node = Nil \/ node = Foreign THEN ZeroPath
    ELSE LET w == walk(s.cores, node, <<>>, MaxCores) IN
         IF w.diverged THEN Diverged
         ELSE IF w.direct THEN s.cores[node].cachedPath
         ELSE [FolderBranch |-> folderBranch, path |-> w.path]

\* PathFromNode(node) on s: the path returned.
PathFromNode(s, node) ==
    IF node = Nil \/ node = Foreign THEN ZeroPath
    ELSE LET w == walk(s.cores, node, <<>>, MaxCores) IN
         IF w.diverged THEN Diverged
         ELSE IF w.direct THEN s.cores[node].cachedPath
         ELSE [FolderBranch |-> folderBranch, path |-> Reverse(w.path)]

\* --------------------------------------------------------------- operations
\* GetOrCreate that validates a parent it is given before it reuses an entry.
GetOrCreate_ValidatesParent(s, ptr, name, parent) ==
    LET r == ref(ptr) IN
    IF ~PtrIsValid(ptr) THEN Returns(s, "panic", r)
    ELSE IF name = "" THEN Returns(s, "EmptyNameError", r)
    ELSE
      LET entry == s.nodes[r]
          ok == entry # NoEntry
          evict == ok /\ parent # Nil /\ s.cores[entry.core].parent = Nil
      IN
      IF ok /\ ~evict
      THEN IF parent # Nil /\ ~newChildForParentLocked(s.nodes, s.cores, parent).ok
           THEN Returns(s, "ParentNodeNotFoundError",
                        newChildForParentLocked(s.nodes, s.cores, parent).ref)
           ELSE Outcome("node", r, entry.core,
                        [s EXCEPT !.nodes = makeNodeStandardForEntry(s.nodes, r),
                                  !.held[entry.core] = @ + 1],
                        s.held[entry.core] < MaxHandles)
      ELSE
        LET deleted == IF evict THEN [s.nodes EXCEPT ![r] = NoEntry] ELSE s.nodes
            parentNS == newChildForParentLocked(deleted, s.cores, parent)
        IN
        IF parent # Nil /\ ~parentNS.ok
        THEN Outcome("ParentNodeNotFoundError", parentNS.ref, 0,
                     [s EXCEPT !.nodes = deleted], TRUE)
        ELSE IF s.allocated >= MaxCores
        THEN Outcome("node", r, 0, s, FALSE)
        ELSE
          LET c == s.allocated + 1
              inserted == [deleted EXCEPT ![r] = [core |-> c, refCount |-> 0]]
          IN  Outcome("node", r, c,
                      [s EXCEPT !.nodes = makeNodeStandardForEntry(inserted, r),
                                !.cores[c] = newNodeCore(ptr, name, parentNS.node),
                                !.allocated = c,
                                !.held[c] = 1],
                      TRUE)

\* GetOrCreate(ptr, name, parent)
GetOrCreate(s, ptr, name, parent) ==
    LET r == ref(ptr) IN
    IF ~PtrIsValid(ptr) THEN Returns(s, "panic", r)
    ELSE IF name = "" THEN Returns(s, "EmptyNameError", r)
    ELSE
      LET entry == s.nodes[r]
          ok == entry # NoEntry
          evict == ok /\ parent # Nil /\ s.cores[entry.core].parent = Nil
      IN
      IF ok /\ ~evict
      THEN Outcome("node", r, entry.core,
                   [s EXCEPT !.nodes = makeNodeStandardForEntry(s.nodes, r),
                             !.held[entry.core] = @ + 1],
                   s.held[entry.core] < MaxHandles)
      ELSE
        LET deleted == IF evict THEN [s.nodes EXCEPT ![r] = NoEntry] ELSE s.nodes
            parentNS == newChildForParentLocked(deleted, s.cores, parent)
        IN
        IF parent # Nil /\ ~parentNS.ok
        THEN Outcome("ParentNodeNotFoundError", parentNS.ref, 0,
                     [s EXCEPT !.nodes = deleted], TRUE)
        ELSE IF s.allocated >= MaxCores
        THEN Outcome("node", r, 0, s, FALSE)
        ELSE
          LET c == s.allocated + 1
              inserted == [deleted EXCEPT ![r] = [core |-> c, refCount |-> 0]]
          IN  Outcome("node", r, c,
                      [s EXCEPT !.nodes = makeNodeStandardForEntry(inserted, r),
                                !.cores[c] = newNodeCore(ptr, name, parentNS.node),
                                !.allocated = c,
                                !.held[c] = 1],
                      TRUE)

\* Get(ref)
Get(s, r) ==
    IF r = ZeroRef THEN Returns(s, "nil", r)
    ELSE IF ~RefIsValid(r) THEN Returns(s, "panic", r)
    ELSE LET entry == s.nodes[r] IN
         IF entry = NoEntry THEN Returns(s, "nil", r)
         ELSE Outcome("node", r, entry.core,
                      [s EXCEPT !.nodes = makeNodeStandardForEntry(s.nodes, r),
                                !.held[entry.core] = @ + 1],
                      s.held[entry.core] < MaxHandles)

\* forget(core): the release of one handle to core, which the finalizer of a
\* nodeStandard makes.
forget(s, core) ==
    Outcome("done", coreRef(s.cores, core), core,
            [s EXCEPT !.nodes = forgetLocked(s, core), !.held[core] = @ - 1],
            TRUE)

\* UpdatePointer without the delete of the old key.
UpdatePointer_KeepsOldKey(s, oldRef, newPtr) ==
    IF oldRef = ZeroRef /\ newPtr = ZeroPtr THEN Returns(s, "done", oldRef)
    ELSE IF ~RefIsValid(oldRef) THEN Returns(s, "panic", oldRef)
    ELSE IF ~PtrIsValid(newPtr) THEN Returns(s, "panic", oldRef)
    ELSE LET entry == s.nodes[oldRef] IN
         IF entry = NoEntry THEN Returns(s, "done", oldRef)
         ELSE IF Len(s.cores[entry.core].cachedPath.path) > 0
              THEN Returns(s, "done", oldRef)
         ELSE Outcome("done", oldRef, entry.core,
                      [s EXCEPT
                         !.cores[entry.core].pathNode.BlockPointer = newPtr,
                         !.nodes = [s.nodes EXCEPT ![ref(newPtr)] = entry]],
                      TRUE)

\* UpdatePointer without the check for an unlinked node.
UpdatePointer_NoUnlinkCheck(s, oldRef, newPtr) ==
    IF oldRef = ZeroRef /\ newPtr = ZeroPtr THEN Returns(s, "done", oldRef)
    ELSE IF ~RefIsValid(oldRef) THEN Returns(s, "panic", oldRef)
    ELSE IF ~PtrIsValid(newPtr) THEN Returns(s, "panic", oldRef)
    ELSE LET entry == s.nodes[oldRef] IN
         IF entry = NoEntry THEN Returns(s, "done", oldRef)
         ELSE Outcome("done", oldRef, entry.core,
                      [s EXCEPT
                         !.cores[entry.core].pathNode.BlockPointer = newPtr,
                         !.nodes = [[s.nodes EXCEPT ![oldRef] = NoEntry]
                                       EXCEPT ![ref(newPtr)] = entry]],
                      TRUE)

\* UpdatePointer that returns at once when either argument is the zero value.
UpdatePointer_EitherZero(s, oldRef, newPtr) ==
    IF oldRef = ZeroRef \/ newPtr = ZeroPtr THEN Returns(s, "done", oldRef)
    ELSE IF ~RefIsValid(oldRef) THEN Returns(s, "panic", oldRef)
    ELSE IF ~PtrIsValid(newPtr) THEN Returns(s, "panic", oldRef)
    ELSE LET entry == s.nodes[oldRef] IN
         IF entry = NoEntry THEN Returns(s, "done", oldRef)
         ELSE IF Len(s.cores[entry.core].cachedPath.path) > 0
              THEN Returns(s, "done", oldRef)
         ELSE Outcome("done", oldRef, entry.core,
                      [s EXCEPT
                         !.cores[entry.core].pathNode.BlockPointer = newPtr,
                         !.nodes = [[s.nodes EXCEPT ![oldRef] = NoEntry]
                                       EXCEPT ![ref(newPtr)] = entry]],
                      TRUE)

\* UpdatePointer that rekeys the entry and leaves the pointer of the core.
UpdatePointer_KeepsPointer(s, oldRef, newPtr) ==
    IF oldRef = ZeroRef /\ newPtr = ZeroPtr THEN Returns(s, "done", oldRef)
    ELSE IF ~RefIsValid(oldRef) THEN Returns(s, "panic", oldRef)
    ELSE IF ~PtrIsValid(newPtr) THEN Returns(s, "panic", oldRef)
    ELSE LET entry == s.nodes[oldRef] IN
         IF entry = NoEntry THEN Returns(s, "done", oldRef)
         ELSE IF Len(s.cores[entry.core].cachedPath.path) > 0
              THEN Returns(s, "done", oldRef)
         ELSE Outcome("done", oldRef, entry.core,
                      [s EXCEPT
                         !.nodes = [[s.nodes EXCEPT ![oldRef] = NoEntry]
                                       EXCEPT ![ref(newPtr)] = entry]],
                      TRUE)

\* UpdatePointer that stores a new entry, counting one handle, under the new key.
UpdatePointer_ResetsCount(s, oldRef, newPtr) ==
    IF oldRef = ZeroRef /\ newPtr = ZeroPtr THEN Returns(s, "done", oldRef)
    ELSE IF ~RefIsValid(oldRef) THEN Returns(s, "panic", oldRef)
    ELSE IF ~PtrIsValid(newPtr) THEN Returns(s, "panic", oldRef)
    ELSE LET entry == s.nodes[oldRef] IN
         IF entry = NoEntry THEN Returns(s, "done", oldRef)
         ELSE IF Len(s.cores[entry.core].cachedPath.path) > 0
              THEN Returns(s, "done", oldRef)
         ELSE Outcome("done", oldRef, entry.core,
                      [s EXCEPT
                         !.cores[entry.core].pathNode.BlockPointer = newPtr,
                         !.nodes = [[s.nodes EXCEPT ![oldRef] = NoEntry]
                                       EXCEPT ![ref(newPtr)] =
                                                 [core |-> entry.core, refCount |-> 1]]],
                      TRUE)

\* UpdatePointer(oldRef, newPtr)
UpdatePointer(s, oldRef, newPtr) ==
    IF oldRef = ZeroRef /\ newPtr = ZeroPtr THEN Returns(s, "done", oldRef)
    ELSE IF ~RefIsValid(oldRef) THEN Returns(s, "panic", oldRef)
    ELSE IF ~PtrIsValid(newPtr) THEN Returns(s, "panic", oldRef)
    ELSE LET entry == s.nodes[oldRef] IN
         IF entry = NoEntry THEN Returns(s, "done", oldRef)
         ELSE IF Len(s.cores[entry.core].cachedPath.path) > 0
              THEN Returns(s, "done", oldRef)
         ELSE Outcome("done", oldRef, entry.core,
                      [s EXCEPT
                         !.cores[entry.core].pathNode.BlockPointer = newPtr,
                         !.nodes = [[s.nodes EXCEPT ![oldRef] = NoEntry]
                                       EXCEPT ![ref(newPtr)] = entry]],
                      TRUE)

\* Move with the empty-name check made after the parent has been validated.
Move_ParentBeforeName(s, r, newParent, newName) ==
    IF r = ZeroRef THEN Returns(s, "nil", r)
    ELSE IF ~RefIsValid(r) THEN Returns(s, "panic", r)
    ELSE LET entry == s.nodes[r] IN
         IF entry = NoEntry THEN Returns(s, "nil", r)
         ELSE LET newParentNS == newChildForParentLocked(s.nodes, s.cores, newParent) IN
              IF ~newParentNS.ok
              THEN Returns(s, "ParentNodeNotFoundError", newParentNS.ref)
              ELSE IF newName = "" THEN Returns(s, "EmptyNameError", r)
              ELSE Outcome("nil", r, entry.core,
                           [s EXCEPT !.cores[entry.core].parent = newParentNS.node,
                                     !.cores[entry.core].pathNode.Name = newName],
                           TRUE)

\* Move(ref, newParent, newName)
Move(s, r, newParent, newName) ==
    IF r = ZeroRef THEN Returns(s, "nil", r)
    ELSE IF ~RefIsValid(r) THEN Returns(s, "panic", r)
    ELSE IF newName = "" THEN Returns(s, "EmptyNameError", r)
    ELSE LET entry == s.nodes[r] IN
         IF entry = NoEntry THEN Returns(s, "nil", r)
         ELSE LET newParentNS == newChildForParentLocked(s.nodes, s.cores, newParent) IN
              IF ~newParentNS.ok
              THEN Returns(s, "ParentNodeNotFoundError", newParentNS.ref)
              ELSE Outcome("nil", r, entry.core,
                           [s EXCEPT !.cores[entry.core].parent = newParentNS.node,
                                     !.cores[entry.core].pathNode.Name = newName],
                           TRUE)

\* Unlink without the clearing of the parent link.
Unlink_KeepsParent(s, r, oldPath) ==
    IF r = ZeroRef THEN Returns(s, "done", r)
    ELSE IF ~RefIsValid(r) THEN Returns(s, "panic", r)
    ELSE LET entry == s.nodes[r] IN
         IF entry = NoEntry THEN Returns(s, "done", r)
         ELSE Outcome("done", r, entry.core,
                      [s EXCEPT !.cores[entry.core].cachedPath = oldPath,
                                !.cores[entry.core].pathNode.Name = "",
                                !.unlinked = @ \cup {entry.core}],
                      TRUE)

\* Unlink(ref, oldPath)
Unlink(s, r, oldPath) ==
    IF r = ZeroRef THEN Returns(s, "done", r)
    ELSE IF ~RefIsValid(r) THEN Returns(s, "panic", r)
    ELSE LET entry == s.nodes[r] IN
         IF entry = NoEntry THEN Returns(s, "done", r)
         ELSE Outcome("done", r, entry.core,
                      [s EXCEPT !.cores[entry.core].cachedPath = oldPath,
                                !.cores[entry.core].parent = Nil,
                                !.cores[entry.core].pathNode.Name = "",
                                !.unlinked = @ \cup {entry.core}],
                      TRUE)

\* ------------------------------------------------------------------ actions
\* The step that leaves the cache as st.
Becomes(st) ==
    /\ nodes' = st.nodes
    /\ cores' = st.cores
    /\ allocated' = st.allocated
    /\ held' = st.held
    /\ unlinked' = st.unlinked

\* One call with outcome o, made from Lock to Unlock in one step, while the
\* run has calls left.
Apply(o) ==
    /\ o.inBounds
    /\ calls < MaxCalls
    /\ calls' = calls + 1
    /\ Becomes(o.st)
    /\ UNCHANGED <<lock, running>>

DoGetOrCreate ==
    \E ptr \in BlockPointer, name \in NameInputs, parent \in NodeInputs(S) :
        Apply(GetOrCreate(S, ptr, name, parent))

DoGet ==
    \E r \in blockRef :
        Apply(Get(S, r))

DoRelease ==
    \E c \in CoreIds :
        held[c] > 0 /\ Apply(forget(S, c))

DoUpdatePointer ==
    \E r \in blockRef, p \in BlockPointer :
        Apply(UpdatePointer(S, r, p))

DoMove ==
    \E r \in blockRef, parent \in NodeInputs(S), name \in NameInputs :
        Apply(Move(S, r, parent, name))

DoUnlink ==
    \E r \in blockRef, oldPath \in SnapshotInputs :
        Apply(Unlink(S, r, oldPath))

\* PathFromNode changes nothing: it takes the read lock and builds a path.  A
\* call whose walk is caught in a cycle never returns.
DoPathFromNode ==
    \E node \in NodeInputs(S) :
        /\ PathTerminates(S, node)
        /\ Apply(Outcome("path", ZeroRef, node, S, TRUE))

\* ----------------------------------------------------------- specifications
Next ==
    \/ DoGetOrCreate
    \/ DoGet
    \/ DoRelease
    \/ DoUpdatePointer
    \/ DoMove
    \/ DoUnlink
    \/ DoPathFromNode

Spec == Init /\ [][Next]_vars

\* The runs of GetOrCreate, Get and Release calls alone.
NextLookup ==
    \/ DoGetOrCreate
    \/ DoGet
    \/ DoRelease

SpecLookup == Init /\ [][NextLookup]_vars

\* A GetOrCreate or a Get that returns a handle.
DoIssue ==
    \/ \E ptr \in BlockPointer, name \in NameInputs, parent \in NodeInputs(S) :
          GetOrCreate(S, ptr, name, parent).kind = "node"
            /\ Apply(GetOrCreate(S, ptr, name, parent))
    \/ \E r \in blockRef : Get(S, r).kind = "node" /\ Apply(Get(S, r))

\* The runs made of successful creations and lookups, and of releases.
NextHandles ==
    \/ DoIssue
    \/ DoRelease

SpecHandles == Init /\ [][NextHandles]_vars

\* ------------------------------------------------------------------ threads
\* An RLock that never waits.
CanRLock_NoWait(l) == TRUE

\* ncs.lock.Lock() returns when no thread holds the lock; ncs.lock.RLock()
\* returns when no thread holds it for writing.

CanLock(l) == l.writer = 0 /\ l.readers = {}

CanRLock(l) == l.writer = 0

\* The arguments the threads pass.
ThreadPtrs == {Ptr(1, 0), Ptr(2, 0)}
ThreadRefs == {ref(ptr) : ptr \in ThreadPtrs}
ThreadSnapshots == {oldPath \in SnapshotInputs : Len(oldPath.path) > 0}

\* The calls in progress on other threads than t that release a handle to
\* core c, and those that hold one as their argument.
Releasing(t, c) ==
    {u \in Threads \ {t} : running[u].call.op = "forget" /\ running[u].call.node = c}

Using(t, c) ==
    {u \in Threads \ {t} : running[u].call.op # "forget" /\ running[u].call.node = c}

\* The nodeStandard handles thread t can pass: to cores of which a handle is
\* left once the releases in progress are made.
ThreadNodes(t) ==
    {c \in CoreIds : held[c] - Cardinality(Releasing(t, c)) > 0}

\* What the critical section of a call does to cache s, as one value.
Effect(s, call) ==
    CASE call.op = "GetOrCreate" -> GetOrCreate(s, call.ptr, call.name, call.node)
      [] call.op = "Get" -> Get(s, call.ref)
      [] call.op = "forget" -> forget(s, call.node)
      [] call.op = "UpdatePointer" -> UpdatePointer(s, call.ref, call.ptr)
      [] call.op = "Move" -> Move(s, call.ref, call.node, call.name)
      [] call.op = "Unlink" -> Unlink(s, call.ref, call.path)

\* The cache after each assignment of Move, in the order of the code.
MoveWrites(s, r, newParent, newName) ==
    LET entry == s.nodes[r]
        newParentNS == newChildForParentLocked(s.nodes, s.cores, newParent)
    IN  IF entry = NoEntry \/ ~newParentNS.ok THEN <<>>
        ELSE LET s1 == [s EXCEPT !.cores[entry.core].parent = newParentNS.node]
                 s2 == [s1 EXCEPT !.cores[entry.core].pathNode.Name = newName]
             IN  <<s1, s2>>

\* The cache after each assignment of Unlink, in the order of the code.
UnlinkWrites(s, r, oldPath) ==
    LET entry == s.nodes[r] IN
    IF entry = NoEntry THEN <<>>
    ELSE LET s1 == [s EXCEPT !.cores[entry.core].cachedPath = oldPath,
                             !.unlinked = @ \cup {entry.core}]
             s2 == [s1 EXCEPT !.cores[entry.core].parent = Nil]
             s3 == [s2 EXCEPT !.cores[entry.core].pathNode.Name = ""]
         IN  <<s1, s2, s3>>

\* The cache after each write of the critical section of a call on s.
Writes(s, call) ==
    CASE call.op = "Move" -> MoveWrites(s, call.ref, call.node, call.name)
      [] call.op = "Unlink" -> UnlinkWrites(s, call.ref, call.path)
      [] OTHER -> <<Effect(s, call).st>>

\* One turn of the loop of PathFromNode, or the end of the call when the loop
\* is over, from position (ns, p) on the cores cs as they are now.
readStep(cs, ns, p) ==
    IF ns = Nil
    THEN [ns |-> Nil, p |-> p,
          ret |-> <<[FolderBranch |-> folderBranch, path |-> Reverse(p)]>>]
    ELSE LET core == cs[ns] IN
         IF core.parent = Nil /\ Len(core.cachedPath.path) > 0
         THEN IF Len(p) = 0
              THEN [ns |-> ns, p |-> p, ret |-> <<core.cachedPath>>]
              ELSE [ns |-> Nil, p |-> p \o Reverse(core.cachedPath.path), ret |-> <<>>]
         ELSE [ns |-> core.parent, p |-> Append(p, core.pathNode), ret |-> <<>>]

\* Thread t, in no call, makes call: it arrives at Lock or at RLock.
Enter(t, pc, call) ==
    /\ running[t] = Idle
    /\ calls < MaxCalls
    /\ calls' = calls + 1
    /\ running' = [running EXCEPT ![t] = Thread(pc, call, <<>>, <<>>, Nil, <<>>, <<>>)]
    /\ UNCHANGED <<nodes, cores, allocated, held, unlinked, lock>>

CallGetOrCreate ==
    \E t \in Threads : \E ptr \in ThreadPtrs, parent \in {Nil} \cup ThreadNodes(t) :
        Enter(t, "waitW", Call("GetOrCreate", ptr, "a", parent, ZeroRef, ZeroPath))

CallGet ==
    \E t \in Threads, r \in ThreadRefs :
        Enter(t, "waitW", Call("Get", ZeroPtr, "", Nil, r, ZeroPath))

CallRelease ==
    \E t \in Threads : \E c \in ThreadNodes(t) :
        /\ held[c] - Cardinality(Releasing(t, c)) - Cardinality(Using(t, c)) > 0
        /\ Enter(t, "waitW", Call("forget", ZeroPtr, "", c, ZeroRef, ZeroPath))

CallUpdatePointer ==
    \E t \in Threads, r \in ThreadRefs, ptr \in ThreadPtrs :
        Enter(t, "waitW", Call("UpdatePointer", ptr, "", Nil, r, ZeroPath))

CallMove ==
    \E t \in Threads : \E r \in ThreadRefs, newParent \in ThreadNodes(t) :
        Enter(t, "waitW", Call("Move", ZeroPtr, "b", newParent, r, ZeroPath))

CallUnlink ==
    \E t \in Threads, r \in ThreadRefs, oldPath \in ThreadSnapshots :
        Enter(t, "waitW", Call("Unlink", ZeroPtr, "", Nil, r, oldPath))

CallPathFromNode ==
    \E t \in Threads : \E node \in ThreadNodes(t) :
        Enter(t, "waitR", Call("PathFromNode", ZeroPtr, "", node, ZeroRef, ZeroPath))

\* ncs.lock.Lock() returns: the thread is in its critical section.
Lock ==
    \E t \in Threads :
        /\ running[t].pc = "waitW"
        /\ CanLock(lock)
        /\ Effect(S, running[t].call).inBounds
        /\ lock' = [lock EXCEPT !.writer = t]
        /\ running' = [running EXCEPT
                         ![t].pc = "writing",
                         ![t].todo = Writes(S, running[t].call),
                         ![t].goal = <<Effect(S, running[t].call).st>>]
        /\ UNCHANGED <<nodes, cores, allocated, held, unlinked, calls>>

\* The next write of a critical section.
Write ==
    \E t \in Threads :
        /\ running[t].pc = "writing"
        /\ running[t].todo # <<>>
        /\ Becomes(Head(running[t].todo))
        /\ running' = [running EXCEPT ![t].todo = Tail(@)]
        /\ UNCHANGED <<calls, lock>>

\* The deferred ncs.lock.Unlock(): the call returns.
Unlock ==
    \E t \in Threads :
        /\ running[t].pc = "writing"
        /\ running[t].todo = <<>>
        /\ lock' = [lock EXCEPT !.writer = 0]
        /\ running' = [running EXCEPT ![t] = Idle]
        /\ UNCHANGED <<nodes, cores, allocated, held, unlinked, calls>>

\* ncs.lock.RLock() returns.
RLock ==
    \E t \in Threads :
        /\ running[t].pc = "waitR"
        /\ CanRLock(lock)
        /\ lock' = [lock EXCEPT !.readers = @ \cup {t}]
        /\ running' = [running EXCEPT ![t].pc = "reading",
                                      ![t].ns = running[t].call.node]
        /\ UNCHANGED <<nodes, cores, allocated, held, unlinked, calls>>

\* One turn of the loop of PathFromNode.  A walk that has visited every core
\* and is not over is caught in a cycle: it goes on for ever, with the lock.
Read ==
    \E t \in Threads :
        /\ running[t].pc = "reading"
        /\ running[t].ret = <<>>
        /\ running[t].ns = Nil \/ Len(running[t].p) < MaxCores
        /\ LET step == readStep(cores, running[t].ns, running[t].p) IN
           running' = [running EXCEPT ![t].ns = step.ns,
                                      ![t].p = step.p,
                                      ![t].ret = step.ret]
        /\ UNCHANGED <<nodes, cores, allocated, held, unlinked, calls, lock>>

\* The deferred ncs.lock.RUnlock(): PathFromNode returns its path.
RUnlock ==
    \E t \in Threads :
        /\ running[t].pc = "reading"
        /\ running[t].ret # <<>>
        /\ lock' = [lock EXCEPT !.readers = @ \ {t}]
        /\ running' = [running EXCEPT ![t] = Idle]
        /\ UNCHANGED <<nodes, cores, allocated, held, unlinked, calls>>

\* The cache called by MaxThreads threads at once.
NextThreads ==
    \/ CallGetOrCreate
    \/ CallGet
    \/ CallRelease
    \/ CallUpdatePointer
    \/ CallMove
    \/ CallUnlink
    \/ CallPathFromNode
    \/ Lock
    \/ Write
    \/ Unlock
    \/ RLock
    \/ Read
    \/ RUnlock

SpecThreads == Init /\ [][NextThreads]_vars

\* ------------------------------------------------------------------- claims
\* The cores allocated so far, and the core indexed under key r (Nil if none).
Allocated == 1..allocated
Indexed(s, r) == IF s.nodes[r] = NoEntry THEN Nil ELSE s.nodes[r].core

\* The handles issued for identity r and not yet released, as (core, number).
OutstandingHandles(r) ==
    {h \in CoreIds \X (1..MaxHandles) :
        h[1] \in Allocated /\ coreRef(cores, h[1]) = r /\ h[2] <= held[h[1]]}

\* C1 (as claimed): refcount conservation.  Under successful creations,
\* lookups and releases alone, an identity with outstanding handles is in the
\* index with refCount equal to their number, and an identity whose handles
\* have all been released is not in the index.
C1_RefcountConservation ==
    \A r \in Keys :
        LET n == Cardinality(OutstandingHandles(r)) IN
        IF n > 0
        THEN nodes[r] # NoEntry /\ nodes[r].refCount = n
        ELSE nodes[r] = NoEntry

\* C2 (as claimed): identity uniqueness.  Under GetOrCreate, Get and Release
\* calls, two outstanding handles whose cores carry the same identity are
\* handles to the same core.
C2_IdentityUniqueness ==
    \A c1 \in Allocated, c2 \in Allocated :
        (held[c1] > 0 /\ held[c2] > 0 /\ coreRef(cores, c1) = coreRef(cores, c2))
            => c1 = c2

\* C3: every entry of the index has refCount >= 1, and a Release that takes
\* the count of an entry to zero removes the entry in the same step.
C3_RefCountPositive ==
    /\ \A r \in Keys : nodes[r] # NoEntry => nodes[r].refCount >= 1
    /\ \A c \in Allocated :
          (held[c] > 0 /\ Indexed(S, coreRef(cores, c)) = c)
            => LET after == forget(S, c).st.nodes[coreRef(cores, c)] IN
               IF nodes[coreRef(cores, c)].refCount = 1
               THEN after = NoEntry
               ELSE after.core = c /\ after.refCount >= 1

\* C3 witness: a Release has removed the entry of a core (no handle on it is
\* left and it is out of the index) while another entry counts two handles.
C3_Witness ==
    /\ \E c \in Allocated : held[c] = 0 /\ Indexed(S, coreRef(cores, c)) # c
    /\ \E r \in Keys : nodes[r].refCount = 2

\* The cache in the next state of a step.
Sp == Cache(nodes', cores', allocated', held', unlinked')

\* C4 (as claimed): a GetOrCreate or a Move that is rejected with the
\* parent-not-found error performs no mutation: the index, the counts and
\* every core are after the call as they were before it.
C4_ParentMismatchNoMutation ==
    [][ /\ \A ptr \in BlockPointer, name \in NameInputs, parent \in NodeInputs(S) :
             (GetOrCreate(S, ptr, name, parent).kind = "ParentNodeNotFoundError"
                /\ Sp = GetOrCreate(S, ptr, name, parent).st)
               => Sp = S
        /\ \A r \in blockRef, parent \in NodeInputs(S), name \in NameInputs :
             (Move(S, r, parent, name).kind = "ParentNodeNotFoundError"
                /\ Sp = Move(S, r, parent, name).st)
               => Sp = S
      ]_vars

\* C5: GetOrCreate with a valid pointer and an empty name, and Move with a
\* valid identity and an empty new name, return the empty-name error tagged
\* with the identity, whatever the index and the parent are, and leave the
\* cache as it was.
C5_EmptyNameRejected ==
    \A parent \in NodeInputs(S) :
        /\ \A ptr \in BlockPointer :
              PtrIsValid(ptr) =>
                LET o == GetOrCreate(S, ptr, "", parent) IN
                o.kind = "EmptyNameError" /\ o.ref = ref(ptr) /\ o.st = S
        /\ \A r \in blockRef :
              RefIsValid(r) =>
                LET o == Move(S, r, parent, "") IN
                o.kind = "EmptyNameError" /\ o.ref = r /\ o.st = S

\* C5 witness: the index holds a child and its parent, and a Move of the child
\* under that very parent with an empty name is rejected with the error, as is
\* a GetOrCreate of the child's pointer with an empty name.
C5_Witness ==
    \E c \in Allocated :
        /\ cores[c].parent # Nil
        /\ held[cores[c].parent] > 0
        /\ Indexed(S, coreRef(cores, c)) = c
        /\ newChildForParentLocked(nodes, cores, cores[c].parent).ok
        /\ Move(S, coreRef(cores, c), cores[c].parent, "").kind = "EmptyNameError"
        /\ GetOrCreate(S, cores[c].pathNode.BlockPointer, "", cores[c].parent).kind
              = "EmptyNameError"

\* C6: for an entry with core C under identity I1 that was never unlinked,
\* UpdatePointer(I1, P2) with P2 valid and of another identity I2 leaves the
\* handles on the cores they were on, makes P2 the pointer of C, makes
\* Get(I1) return none and Get(I2) return a handle to C.
C6_UpdatePointerRekeys ==
    \A r \in Keys, p \in BlockPointer :
        (PtrIsValid(p) /\ ref(p) # r /\ nodes[r] # NoEntry
            /\ nodes[r].core \notin unlinked)
          => LET C == nodes[r].core
                 t == UpdatePointer(S, r, p).st
             IN  /\ t.held = held
                 /\ t.cores[C].pathNode.BlockPointer = p
                 /\ Get(t, r).kind = "nil"
                 /\ Get(t, ref(p)).kind = "node"
                 /\ Get(t, ref(p)).core = C

\* C6 witness: a never-unlinked core with two handles is indexed under I1
\* while another core is indexed under the identity I2 it is rekeyed to.
C6_Witness ==
    \E r \in Keys, p \in BlockPointer :
        /\ PtrIsValid(p) /\ ref(p) # r
        /\ nodes[r] # NoEntry /\ nodes[r].core \notin unlinked
        /\ held[nodes[r].core] = 2
        /\ nodes[ref(p)] # NoEntry
        /\ p # cores[nodes[ref(p)].core].pathNode.BlockPointer
        /\ UpdatePointer(S, r, p).st.nodes[ref(p)].core = nodes[r].core

\* C7 (as claimed): for a node that Unlink has unlinked, with whatever
\* snapshot, and that is still in the index under I, UpdatePointer(I, P2)
\* leaves the pointer of its core and its entry under I as they were.
C7_RejectedAfterAnyUnlink ==
    [][ \A r \in Keys, p \in BlockPointer :
          (nodes[r] # NoEntry /\ nodes[r].core \in unlinked
              /\ Sp = UpdatePointer(S, r, p).st)
            => /\ cores'[nodes[r].core].pathNode.BlockPointer
                    = cores[nodes[r].core].pathNode.BlockPointer
               /\ nodes'[r] = nodes[r]
      ]_vars

\* C7 (amended): for a node whose latest Unlink passed a non-empty snapshot
\* and that is still in the index under I, UpdatePointer(I, P2) changes
\* nothing: the pointer of its core stays and the entry stays under I.
C7_RejectedAfterUnlink ==
    \A r \in Keys, p \in BlockPointer :
        (nodes[r] # NoEntry /\ nodes[r].core \in unlinked
            /\ Len(cores[nodes[r].core].cachedPath.path) > 0)
          => LET t == UpdatePointer(S, r, p).st IN
             /\ t.cores[nodes[r].core].pathNode.BlockPointer
                   = cores[nodes[r].core].pathNode.BlockPointer
             /\ t.nodes[r] = nodes[r]
             /\ t = S

\* C7 witness: an indexed core was unlinked with a non-empty snapshot and
\* another was unlinked with an empty one; UpdatePointer rekeys only the latter.
C7_Witness ==
    \E r1 \in Keys, r2 \in Keys, p \in BlockPointer :
        /\ PtrIsValid(p) /\ ref(p) \notin {r1, r2}
        /\ nodes[r1] # NoEntry /\ nodes[r1].core \in unlinked
        /\ Len(cores[nodes[r1].core].cachedPath.path) > 0
        /\ nodes[r2] # NoEntry /\ nodes[r2].core \in unlinked
        /\ Len(cores[nodes[r2].core].cachedPath.path) = 0
        /\ UpdatePointer(S, r1, p).st = S
        /\ UpdatePointer(S, r2, p).st.nodes[ref(p)] = nodes[r2]

\* A core that Unlink left detached with a non-empty cached path.
Frozen(s, c) ==
    /\ c \in s.unlinked
    /\ s.cores[c].parent = Nil
    /\ Len(s.cores[c].cachedPath.path) > 0

\* After a call that left the cache as t, core c is detached with cached path
\* snap, and PathFromNode on a handle to it returns exactly snap.
FrozenAs(t, c, snap) ==
    /\ t.cores[c].parent = Nil
    /\ t.cores[c].cachedPath = snap
    /\ PathFromNode(t, c) = snap

\* C8: after Unlink(A, snapshot) with a non-empty snapshot, PathFromNode on a
\* handle to the core of A returns exactly snapshot, and still does after any
\* call of GetOrCreate, Get, Release, Move, Unlink or UpdatePointer that
\* targets an identity other than A.
C8_UnlinkFreezesPath ==
    /\ \A r \in Keys, snap \in SnapshotInputs :
          (nodes[r] # NoEntry /\ Len(snap.path) > 0)
            => FrozenAs(Unlink(S, r, snap).st, nodes[r].core, snap)
    /\ \A c \in Allocated :
          Frozen(S, c) =>
            LET a == coreRef(cores, c)
                snap == cores[c].cachedPath
            IN  /\ PathFromNode(S, c) = snap
                /\ \A ptr \in BlockPointer, name \in NameInputs, parent \in NodeInputs(S) :
                      ref(ptr) # a => FrozenAs(GetOrCreate(S, ptr, name, parent).st, c, snap)
                /\ \A r \in blockRef :
                      r # a => FrozenAs(Get(S, r).st, c, snap)
                /\ \A d \in Allocated :
                      (held[d] > 0 /\ coreRef(cores, d) # a)
                        => FrozenAs(forget(S, d).st, c, snap)
                /\ \A r \in blockRef, p \in BlockPointer :
                      r # a => FrozenAs(UpdatePointer(S, r, p).st, c, snap)
                /\ \A r \in blockRef, parent \in NodeInputs(S), name \in NameInputs :
                      r # a => FrozenAs(Move(S, r, parent, name).st, c, snap)
                /\ \A r \in blockRef, other \in SnapshotInputs :
                      r # a => FrozenAs(Unlink(S, r, other).st, c, snap)

\* C8 witness: a core unlinked with a non-empty snapshot is still held, a
\* second core, at data version 1, has been unlinked besides it, and
\* PathFromNode on the first returns its snapshot.
C8_Witness ==
    \E c \in Allocated, d \in Allocated :
        /\ c # d
        /\ Frozen(S, c) /\ held[c] > 0
        /\ d \in unlinked
        /\ cores[d].pathNode.BlockPointer.DataVer # 0
        /\ PathFromNode(S, c) = cores[c].cachedPath

\* C9 (as claimed): after a successful Move(I, newParent, newName) of an
\* indexed node with core C, the parent of C is newParent and its name is
\* newName, its pointer, count and index key are unchanged, and
\* PathFromNode(C) is PathFromNode(newParent) followed by (pointer of C, newName).
C9_MoveUpdatesPath ==
    [][ \A r \in Keys, newParent \in NodeInputs(S), newName \in Names :
          (nodes[r] # NoEntry
              /\ newChildForParentLocked(nodes, cores, newParent).ok
              /\ Sp = Move(S, r, newParent, newName).st)
            => LET C == nodes[r].core IN
               /\ cores'[C].parent = newParent
               /\ cores'[C].pathNode.Name = newName
               /\ cores'[C].pathNode.BlockPointer = cores[C].pathNode.BlockPointer
               /\ nodes' = nodes
               /\ PathTerminates(Sp, C)
               /\ PathFromNode(Sp, C).path
                    = Append(PathFromNode(Sp, newParent).path,
                             pathNode(cores[C].pathNode.BlockPointer, newName))
      ]_vars

\* The cores from the root down to core c, following parent links, or the
\* empty sequence when the links from c are caught in a cycle.
RECURSIVE ChainOf(_, _, _)
ChainOf(s, c, fuel) ==
    IF fuel = 0 THEN <<>>
    ELSE IF s.cores[c].parent = Nil THEN <<c>>
    ELSE LET up == ChainOf(s, s.cores[c].parent, fuel - 1) IN
         IF up = <<>> THEN <<>> ELSE Append(up, c)

\* C10: for a chain of cores c0, ..., cn where c0 has no parent and an empty
\* cached path and each next core has the one before as its parent,
\* PathFromNode(cn) returns the n+1 path nodes (pointer, name) of c0, ..., cn
\* in that order.
C10_PathOfAttachedChain ==
    \A c \in Allocated :
        LET ch == ChainOf(S, c, MaxCores) IN
        (ch # <<>> /\ Len(cores[ch[1]].cachedPath.path) = 0)
          => PathFromNode(S, c).path = [i \in 1..Len(ch) |-> cores[ch[i]].pathNode]

\* C10 witness: after four calls, a chain of three cores under a root with an
\* empty cached path, the two lower ones under different names.
C10_Witness ==
    \E c \in Allocated :
        LET ch == ChainOf(S, c, MaxCores) IN
        /\ Len(ch) = 3
        /\ Len(cores[ch[1]].cachedPath.path) = 0
        /\ cores[ch[2]].pathNode.Name # cores[ch[3]].pathNode.Name
        /\ calls = 4
        /\ Len(PathFromNode(S, c).path) = 3

\* C11 (as claimed): resurrection.  GetOrCreate(I, name, parent) on an indexed
\* identity I evicts the entry and installs a fresh core (refCount 1, the
\* given pointer and name, linked to the validated parent) exactly when parent
\* is not none and the existing core is detached and was unlinked by Unlink;
\* in every other case it returns the existing core with its refCount raised
\* by one and evicts nothing.
C11_ResurrectionExactlyWhenUnlinked ==
    [][ \A ptr \in BlockPointer, name \in Names, parent \in NodeInputs(S) :
          (PtrIsValid(ptr) /\ nodes[ref(ptr)] # NoEntry
              /\ GetOrCreate(S, ptr, name, parent).inBounds
              /\ Sp = GetOrCreate(S, ptr, name, parent).st)
            => LET r == ref(ptr)
                   C == nodes[r].core
                   o == GetOrCreate(S, ptr, name, parent)
               IN  IF parent # Nil /\ C \in unlinked /\ cores[C].parent = Nil
                   THEN newChildForParentLocked(nodes, cores, parent).ok
                          => /\ o.kind = "node" /\ o.core # C
                             /\ nodes'[r] = [core |-> o.core, refCount |-> 1]
                             /\ cores'[o.core] = newNodeCore(ptr, name, parent)
                   ELSE /\ o.kind = "node" /\ o.core = C
                        /\ nodes' = [nodes EXCEPT ![r].refCount = @ + 1]
      ]_vars

\* C12: the Release of a handle whose core is not the core indexed under that
\* core's identity (no entry, or the entry of another core) changes neither
\* the index, and so no refCount, nor any core.
C12_StaleReleaseNoOp ==
    \A c \in Allocated :
        (held[c] > 0 /\ Indexed(S, coreRef(cores, c)) # c)
          => LET t == forget(S, c).st IN
             /\ t.nodes = nodes
             /\ t.cores = cores
             /\ t.held = [held EXCEPT ![c] = @ - 1]

\* C12 witness: a core that is no longer indexed still has a handle, and a
\* fresh core of the same identity is indexed in its place, with a count
\* equal to its own handles.
C12_Witness ==
    \E c \in Allocated, d \in Allocated :
        /\ c # d
        /\ held[c] > 0 /\ held[d] > 0
        /\ coreRef(cores, c) = coreRef(cores, d)
        /\ Indexed(S, coreRef(cores, c)) = d
        /\ nodes[coreRef(cores, d)].refCount = held[d]
        /\ forget(S, c).st.nodes = nodes

\* C13: Get, Move and Unlink with the zero identity, and UpdatePointer with
\* the zero identity and the zero pointer, return normally; every other
\* invalid identity or pointer given to GetOrCreate, Get, UpdatePointer, Move
\* or Unlink (UpdatePointer with exactly one zero argument and GetOrCreate
\* with an invalid pointer and an empty name included) ends in the panic,
\* never in a returned error; in both cases the cache is left as it was.
C13_SentinelAndInvalidInputs ==
    /\ Get(S, ZeroRef) = Returns(S, "nil", ZeroRef)
    /\ UpdatePointer(S, ZeroRef, ZeroPtr) = Returns(S, "done", ZeroRef)
    /\ \A parent \in NodeInputs(S), name \in NameInputs :
          Move(S, ZeroRef, parent, name) = Returns(S, "nil", ZeroRef)
    /\ \A snap \in SnapshotInputs :
          Unlink(S, ZeroRef, snap) = Returns(S, "done", ZeroRef)
    /\ \A r \in blockRef :
          (r # ZeroRef /\ ~RefIsValid(r))
            => /\ Get(S, r) = Returns(S, "panic", r)
               /\ \A parent \in NodeInputs(S), name \in NameInputs :
                     Move(S, r, parent, name) = Returns(S, "panic", r)
               /\ \A snap \in SnapshotInputs :
                     Unlink(S, r, snap) = Returns(S, "panic", r)
    /\ \A p \in BlockPointer, name \in NameInputs, parent \in NodeInputs(S) :
          ~PtrIsValid(p)
            => GetOrCreate(S, p, name, parent) = Returns(S, "panic", ref(p))
    /\ \A r \in blockRef, p \in BlockPointer :
          (~(r = ZeroRef /\ p = ZeroPtr) /\ (~RefIsValid(r) \/ ~PtrIsValid(p)))
            => UpdatePointer(S, r, p) = Returns(S, "panic", r)

\* C13 witness: with an attached child and its parent in the index, an
\* UpdatePointer of the child's identity to the zero pointer and one of the
\* zero identity to the child's pointer both panic, and a Move of the zero
\* identity under the parent with an empty name returns nil.
C13_Witness ==
    \E c \in Allocated :
        /\ cores[c].parent # Nil /\ held[cores[c].parent] > 0
        /\ Indexed(S, coreRef(cores, c)) = c
        /\ UpdatePointer(S, coreRef(cores, c), ZeroPtr).kind = "panic"
        /\ UpdatePointer(S, ZeroRef, cores[c].pathNode.BlockPointer).kind = "panic"
        /\ Move(S, ZeroRef, cores[c].parent, "").kind = "nil"

\* C15 (as claimed): detached is terminal.  For a core that Unlink has
\* unlinked, here with a non-empty snapshot, and whose entry is still in the
\* index, no GetOrCreate, Get, Release, UpdatePointer or Move changes its
\* parent, its name, its cached path or its pointer.
C15_DetachedIsTerminal ==
    [][ \A c \in Allocated :
          (c \in unlinked /\ Indexed(S, coreRef(cores, c)) = c
              /\ Len(cores[c].cachedPath.path) > 0)
            => /\ \A ptr \in BlockPointer, name \in NameInputs, parent \in NodeInputs(S) :
                     Sp = GetOrCreate(S, ptr, name, parent).st => cores'[c] = cores[c]
               /\ \A r \in blockRef :
                     Sp = Get(S, r).st => cores'[c] = cores[c]
               /\ \A d \in Allocated :
                     (held[d] > 0 /\ Sp = forget(S, d).st) => cores'[c] = cores[c]
               /\ \A r \in blockRef, p \in BlockPointer :
                     Sp = UpdatePointer(S, r, p).st => cores'[c] = cores[c]
               /\ \A r \in blockRef, parent \in NodeInputs(S), name \in NameInputs :
                     Sp = Move(S, r, parent, name).st => cores'[c] = cores[c]
      ]_vars

\* C16: for a core U with no parent and a non-empty cached path, and a chain
\* d1, ..., dk (k >= 1) of cores below it, PathFromNode(dk) returns the cached
\* path of U in its order followed by the path nodes (pointer, name) of
\* d1, ..., dk: the path node of U itself is not added and the walk stops at U.
C16_DescendantOfUnlinked ==
    \A c \in Allocated :
        LET ch == ChainOf(S, c, MaxCores) IN
        (Len(ch) >= 2 /\ Len(cores[ch[1]].cachedPath.path) > 0)
          => PathFromNode(S, c).path
               = cores[ch[1]].cachedPath.path
                   \o [i \in 1..(Len(ch) - 1) |-> cores[ch[i + 1]].pathNode]

\* C16 witness: a chain of two cores below a core that Unlink has unlinked
\* with a non-empty snapshot; the path of the lowest has the length of the
\* snapshot plus two.
C16_Witness ==
    \E c \in Allocated :
        LET ch == ChainOf(S, c, MaxCores) IN
        /\ Len(ch) = 3
        /\ ch[1] \in unlinked
        /\ Len(cores[ch[1]].cachedPath.path) > 0
        /\ Len(PathFromNode(S, c).path) = Len(cores[ch[1]].cachedPath.path) + 2

\* C17 (as claimed): in every reachable state the parent links are acyclic,
\* so that PathFromNode on any handle comes to an end.
C17_PathFromNodeTerminates ==
    \A c \in Allocated : held[c] > 0 => PathTerminates(S, c)

\* C18 (as claimed): every path PathFromNode returns for a nodeStandard
\* carries the folder-branch of the cache, whether built by the walk or taken
\* from the cached path of an unlinked core; for another Node the path is empty.
C18_PathCarriesFolderBranch ==
    /\ PathFromNode(S, Foreign).path = <<>>
    /\ \A c \in Allocated :
          (held[c] > 0 /\ PathTerminates(S, c))
            => PathFromNode(S, c).FolderBranch = folderBranch

\* C19 (as claimed): UpdatePointer(I1, P2), when another core is indexed
\* under the identity I2 of P2, leaves the entry under I2 as it was, and no
\* core with outstanding handles is dropped from the index by UpdatePointer.
C19_UpdatePointerKeepsOtherEntry ==
    [][ \A r \in Keys, p \in BlockPointer :
          (PtrIsValid(p) /\ ref(p) # r
              /\ nodes[r] # NoEntry /\ nodes[ref(p)] # NoEntry
              /\ Sp = UpdatePointer(S, r, p).st)
            => /\ nodes'[ref(p)] = nodes[ref(p)]
               /\ \A c \in Allocated :
                     (held[c] > 0 /\ Indexed(S, coreRef(cores, c)) = c)
                       => \E k \in Keys : nodes'[k] # NoEntry /\ nodes'[k].core = c
      ]_vars

\* C20: every entry of the index under key k holds a core whose pointer
\* derives the identity k, so that the Release of a handle to an indexed core
\* finds the entry of that core from the core's pointer.
C20_IndexKeyConsistency ==
    /\ \A k \in Keys :
          nodes[k] # NoEntry => coreRef(cores, nodes[k].core) = k
    /\ \A c \in Allocated :
          (held[c] > 0 /\ \E k \in Keys : nodes[k] # NoEntry /\ nodes[k].core = c)
            => forget(S, c).st.nodes # nodes

\* C20 witness: an UpdatePointer has put a root under the key of another
\* root: both are held, neither was unlinked, they have the same identity and
\* the index holds one of them.
C20_Witness ==
    \E c \in Allocated, d \in Allocated :
        /\ c # d
        /\ held[c] > 0 /\ held[d] > 0
        /\ c \notin unlinked /\ d \notin unlinked
        /\ cores[c].parent = Nil /\ cores[d].parent = Nil
        /\ coreRef(cores, c) = coreRef(cores, d)
        /\ Indexed(S, coreRef(cores, c)) = c

\* C14: atomicity under concurrency.  While a thread is in the critical
\* section of GetOrCreate, Get, Release, UpdatePointer, Move or Unlink no
\* other thread is in any critical section, and at its end the cache is what
\* the operation makes of the cache it found at Lock; threads in PathFromNode
\* may be in their critical sections together, but never with a writer; the
\* walk of a PathFromNode is, at every turn, the walk over the cache as it is
\* between two operations, and the path it returns is the path of that cache.
C14_Atomicity ==
    /\ lock.writer # 0 => lock.readers = {}
    /\ \A t \in Threads :
          /\ running[t].pc = "writing" <=> lock.writer = t
          /\ running[t].pc = "reading" <=> t \in lock.readers
          /\ (running[t].pc = "writing" /\ running[t].todo = <<>>)
                => running[t].goal = <<S>>
          /\ (running[t].pc = "reading" /\ PathTerminates(S, running[t].call.node))
                => IF running[t].ret # <<>>
                   THEN running[t].ret = <<PathFromNode(S, running[t].call.node)>>
                   ELSE LET rest == walk(cores, running[t].ns, running[t].p,
                                         MaxCores - Len(running[t].p))
                        IN  /\ ~rest.direct
                               => Reverse(rest.path)
                                    = PathFromNode(S, running[t].call.node).path
                            /\ rest.direct
                               => rest.path = PathFromNode(S, running[t].call.node).path

\* C14 witness: one thread is in the loop of PathFromNode on a child, which
\* it has passed, while the other thread waits at Lock with a Move or an
\* Unlink of that child.
C14_Witness ==
    \E t \in Threads, u \in Threads :
        /\ running[t].pc = "reading"
        /\ Len(running[t].p) = 1
        /\ running[t].ns # Nil
        /\ running[u].pc = "waitW"
        /\ running[u].call.op \in {"Move", "Unlink"}
        /\ running[u].call.ref = coreRef(cores, running[t].call.node)

\* C21: the count follows the core across a rekey.  An UpdatePointer(I1, P2)
\* that takes effect puts the entry, with its core and its refCount as they
\* were, under the identity I2 of P2 and leaves none under I1; a Release of a
\* handle to that core made after it decrements the entry under I2, or
\* removes it when it counted one; and in every state the entry of an indexed
\* core counts exactly the handles to that core not yet released, so that a
\* core whose handles have all been released is under no key.
C21_RefCountFollowsRekey ==
    /\ \A r \in Keys, p \in BlockPointer :
          (PtrIsValid(p) /\ nodes[r] # NoEntry
              /\ Len(cores[nodes[r].core].cachedPath.path) = 0)
            => LET C == nodes[r].core
                   t == UpdatePointer(S, r, p).st
                   u == forget(t, C).st
               IN  /\ t.nodes[ref(p)] = nodes[r]
                   /\ ref(p) # r => t.nodes[r] = NoEntry
                   /\ held[C] > 0
                   /\ u.nodes[ref(p)]
                        = IF nodes[r].refCount = 1 THEN NoEntry
                          ELSE [core |-> C, refCount |-> nodes[r].refCount - 1]
    /\ \A k \in Keys :
          nodes[k] # NoEntry => nodes[k].refCount = held[nodes[k].core]
    /\ \A c \in Allocated :
          held[c] = 0 => \A k \in Keys : Indexed(S, k) # c

\* C21 witness: a root was rekeyed by UpdatePointer to the identity of
\* another root, which is still held, and every handle to the rekeyed root
\* has been released since: neither was unlinked, and the identity they have
\* in common is not in the index.
C21_Witness ==
    \E c \in Allocated, d \in Allocated :
        /\ c # d
        /\ held[c] = 0 /\ held[d] > 0
        /\ c \notin unlinked /\ d \notin unlinked
        /\ cores[c].parent = Nil /\ cores[d].parent = Nil
        /\ coreRef(cores, c) = coreRef(cores, d)
        /\ nodes[coreRef(cores, c)] = NoEntry

\* C22: GetOrCreate on an existing entry is a pure lookup.  When
\* GetOrCreate(ptr, name, parent) reuses the entry of ptr's identity (parent
\* is none, or the core of the entry has a parent), whatever name, parent and
\* pointer it is given, it returns a handle to the core of the entry, raises
\* the refCount of the entry by one and changes no core and no other entry.
C22_GetOrCreateReuseIsLookup ==
    \A ptr \in BlockPointer, name \in Names, parent \in NodeInputs(S) :
        (PtrIsValid(ptr) /\ nodes[ref(ptr)] # NoEntry
            /\ (parent = Nil \/ cores[nodes[ref(ptr)].core].parent # Nil)
            /\ GetOrCreate(S, ptr, name, parent).inBounds)
          => LET r == ref(ptr)
                 o == GetOrCreate(S, ptr, name, parent)
             IN  /\ o.kind = "node"
                 /\ o.core = nodes[r].core
                 /\ o.st.nodes = [nodes EXCEPT ![r].refCount = @ + 1]
                 /\ o.st.cores = cores
                 /\ o.st.allocated = allocated
                 /\ o.st.unlinked = unlinked
                 /\ o.st.held = [held EXCEPT ![nodes[r].core] = @ + 1]

\* C22 witness: an attached child, indexed and counting two handles, is
\* returned by a GetOrCreate with another pointer of its identity, another
\* name and a parent that is not in the index.
C22_Witness ==
    \E c \in Allocated, ptr \in BlockPointer, name \in Names :
        /\ cores[c].parent # Nil
        /\ PtrIsValid(ptr) /\ ref(ptr) = coreRef(cores, c)
        /\ ptr # cores[c].pathNode.BlockPointer
        /\ name # cores[c].pathNode.Name
        /\ Indexed(S, ref(ptr)) = c
        /\ nodes[ref(ptr)].refCount = 2 /\ held[c] = 2
        /\ ~newChildForParentLocked(nodes, cores, Foreign).ok
        /\ GetOrCreate(S, ptr, name, Foreign).kind = "node"
        /\ GetOrCreate(S, ptr, name, Foreign).core = c

====
